---- MODULE Spec2Model ----
(***************************************************************************)
(* Model of backend/lambda/python_executor_lambda.py: the lambda_handler   *)
(* that writes a submission to /tmp/code.py and /tmp/input.txt, runs it in *)
(* a python3 child under a wall-clock timeout and maps the result to one   *)
(* of four statuses.  Several invocations of the handler may be in flight  *)
(* in the same container; they share the clock and the two /tmp files.     *)
(* The clock counts whole seconds; time limits are whole seconds in ms.    *)
(***************************************************************************)
EXTENDS Integers, Sequences, FiniteSets, TLC

VARIABLES
  now,                \* time.time(), in seconds
  fs,                 \* contents of /tmp/code.py and /tmp/input.txt
  pc,                 \* per invocation: position in lambda_handler
  event,              \* per invocation: the event it was called with
  code,               \* per invocation: local `code`
  input_data,         \* per invocation: local `input_data`
  time_limit_ms,      \* per invocation: local `time_limit_ms`
  execution_timeout,  \* per invocation: local `execution_timeout` (seconds)
  start_time,         \* per invocation: local `start_time`
  endtime,            \* per invocation: deadline of communicate(timeout=...)
  process,            \* per invocation: the child started by Popen
  desc,               \* per invocation: a process forked by the child
  result,             \* per invocation: the dictionary returned
  trace               \* per invocation: what happened (history, read by no action)

vars == <<now, fs, pc, event, code, input_data, time_limit_ms, execution_timeout,
          start_time, endtime, process, desc, result, trace>>

locals == <<code, input_data, time_limit_ms, execution_timeout>>

-----------------------------------------------------------------------------
(* Bounds *)

\* The clock stops advancing here.
MaxClock == 9

\* Invocations of the handler that may be in flight in one container.
Inv == {1, 2}

\* Submitted programs, named by what they do (see Behaviour).
Codes == {"echo", "fail", "segv", "loop", "fork", "daemon", "bin"}

\* Input streams; the second carries a CRLF line ending.
Inputs == {"42", "a\r\nb"}

\* Caller-supplied time limits (ms).
TimeLimits == {0, 1000, 9000}

\* What reading `ps -o rss= -p <pid>` gives: a number, nothing, or an OSError.
RssSamples == {"51200", "", "<OSError>"}

-----------------------------------------------------------------------------
(* Program constants *)

DefaultTimeLimitMs == 10000

MaxSeconds == 8

MsPerSecond == 1000

-----------------------------------------------------------------------------
(* Events and dictionaries *)

\* dict.get(key, default)
Get(d, key, default) == IF key \in DOMAIN d THEN d[key] ELSE default

\* The events the handler is called with: every key is optional.
Events ==
  {[code |-> c, input |-> i, time_limit_ms |-> t] :
      c \in Codes \cup {""}, i \in Inputs, t \in TimeLimits}
  \cup {[code |-> c, input |-> i] : c \in Codes, i \in Inputs}
  \cup {[code |-> c] : c \in Codes}
  \cup {[input |-> i] : i \in Inputs}

\* The events of two invocations that share a container: the same program or
\* two programs, the same input or two inputs, a one-second limit.
PairEvents ==
  {[code |-> c, input |-> i, time_limit_ms |-> t] :
      c \in {"echo", "fail", "fork"}, i \in Inputs, t \in {1000}}

NoFile == "<no file>"
NoResult == [status |-> "<none>"]
Statuses == {"success", "runtime_error", "time_limit_exceeded", "compilation_error"}

Min(a, b) == IF a <= b THEN a ELSE b

-----------------------------------------------------------------------------
(* The submitted programs and the text layer of the pipes *)

Undecodable == "<0xff>"

\* What python3 does with the source `prog` it loaded and the stdin it read:
\* the bytes it writes to stdout and stderr, whether it starts a process that
\* outlives it ("alive": one that inherits the two pipes, "detached": one with
\* its own stdio), whether it exits by itself and with what return code
\* (negative: death by signal).
Behaviour(prog, stdin) ==
  CASE prog = "echo" -> [out |-> stdin, err |-> "warning", forks |-> "none", halts |-> TRUE, rc |-> 0]
    [] prog = "fail" -> [out |-> "partial", err |-> "Traceback", forks |-> "none", halts |-> TRUE, rc |-> 1]
    [] prog = "segv" -> [out |-> "partial", err |-> "", forks |-> "none", halts |-> TRUE, rc |-> -11]
    [] prog = "loop" -> [out |-> "spam", err |-> "", forks |-> "none", halts |-> FALSE, rc |-> 0]
    [] prog = "fork" -> [out |-> "forked", err |-> "", forks |-> "alive", halts |-> TRUE, rc |-> 0]
    [] prog = "daemon" -> [out |-> "started", err |-> "", forks |-> "detached", halts |-> FALSE, rc |-> 0]
    [] prog = "bin" -> [out |-> Undecodable, err |-> "", forks |-> "none", halts |-> TRUE, rc |-> 0]
    [] OTHER -> [out |-> "", err |-> "", forks |-> "none", halts |-> TRUE, rc |-> 0]

\* Popen(text=True): the captured bytes are decoded strictly and "\r\n" becomes "\n".
Decodable(bytes) == bytes # Undecodable

Decode(bytes) == IF bytes = "a\r\nb" THEN "a\nb" ELSE bytes

\* int(os.popen('ps ...').read().strip() or '0'), 0 when anything raises
MemoryUsed(sample) == IF sample = "51200" THEN 51200 ELSE 0

\* state: none, spawned (not yet running the program), running, exited, killed;
\* ran: it loaded a program; prog, stdin: what it loaded and read; out, err:
\* the bytes it wrote
NoProcess ==
  [state |-> "none", ran |-> FALSE, prog |-> "", stdin |-> "", out |-> "", err |-> "",
   returncode |-> 0]

\* communicate() returns once both pipes are at EOF and the child is reaped:
\* every process holding the write ends has gone.
PipesClosed(i) == process[i].state \in {"exited", "killed"} /\ desc[i] # "alive"

-----------------------------------------------------------------------------
(* The pure parts of lambda_handler *)

\* A plausible slip: the ceiling is left out
ExecutionTimeoutUnclamped(tl) == tl \div MsPerSecond

\* line 42
ExecutionTimeout(tl) == Min(tl \div MsPerSecond, MaxSeconds)

\* "{}".format(execution_timeout): time_limit_ms / 1000 is a float, 8 is an int,
\* and min returns the first of two equal arguments.
FormatSeconds(tl) ==
  IF tl \div MsPerSecond <= MaxSeconds
    THEN ToString(tl \div MsPerSecond) \o ".0"
    ELSE ToString(MaxSeconds)

\* lines 34-39
NoCodeResult ==
  [status |-> "compilation_error", output |-> "No code provided",
   execution_time_ms |-> 0, memory_used_kb |-> 0]

\* line 70
ExecutionTime(start, t) == (t - start) * MsPerSecond

\* A plausible slip: a child that died by a signal is taken for a timeout
StatusOfSignalAsTimeout(returncode) ==
  IF returncode = 0 THEN "success"
  ELSE IF returncode < 0 THEN "time_limit_exceeded"
  ELSE "runtime_error"

\* lines 79-84
StatusOf(returncode) == IF returncode = 0 THEN "success" ELSE "runtime_error"

\* A plausible slip: stdout is returned whatever the return code
OutputAlwaysStdout(returncode, stdout, stderr) == stdout

OutputOf(returncode, stdout, stderr) == IF returncode = 0 THEN stdout ELSE stderr

\* lines 86-91
CompletedResult(returncode, stdout, stderr, execution_time, memory_used) ==
  [status |-> StatusOf(returncode), output |-> OutputOf(returncode, stdout, stderr),
   execution_time_ms |-> execution_time, memory_used_kb |-> memory_used]

\* A plausible slip: the reported time is the deadline that was enforced
TimeoutResultClamped(tl) ==
  [status |-> "time_limit_exceeded",
   output |-> "Execution timed out after " \o FormatSeconds(tl) \o " seconds",
   execution_time_ms |-> Min(tl, MaxSeconds * MsPerSecond), memory_used_kb |-> 0]

\* A plausible slip: the message is built from the requested limit
TimeoutResultRequested(tl) ==
  [status |-> "time_limit_exceeded",
   output |-> "Execution timed out after " \o ToString(tl \div MsPerSecond) \o ".0 seconds",
   execution_time_ms |-> tl, memory_used_kb |-> 0]

\* lines 101-106
TimeoutResult(tl) ==
  [status |-> "time_limit_exceeded",
   output |-> "Execution timed out after " \o FormatSeconds(tl) \o " seconds",
   execution_time_ms |-> tl, memory_used_kb |-> 0]

\* A plausible slip: the handler reports a fixed text in place of str(e)
ExceptionResultGeneric(e) ==
  [status |-> "compilation_error", output |-> "Internal error",
   execution_time_ms |-> 0, memory_used_kb |-> 0]

\* lines 113-118
ExceptionResult(e) ==
  [status |-> "compilation_error", output |-> e,
   execution_time_ms |-> 0, memory_used_kb |-> 0]

-----------------------------------------------------------------------------
(* Initial state: a fresh container, no invocation started *)

\* branch: the return statement taken; decided: the clock when communicate
\* returned or raised; launches, kills, returns: how often Popen succeeded,
\* kill() was called, the handler returned; expired: TimeoutExpired was raised;
NotSampled == "<not sampled>"

\* late_exit: the child ended by itself between that and kill(); raised: the
\* exception that reached line 108; io_error: the operating system refused a
\* file or process operation; swallowed: line 97 raised into `except: pass`;
\* sample: what the memory sampling of line 74 read; overlapped: another
\* invocation was in flight when this one was called
NoTrace == [branch |-> "none", decided |-> 0, launches |-> 0, kills |-> 0, returns |-> 0,
            expired |-> FALSE, late_exit |-> FALSE, raised |-> "", io_error |-> FALSE,
            swallowed |-> FALSE, sample |-> NotSampled, overlapped |-> FALSE]

Init ==
  /\ now = 0
  /\ fs = [code |-> NoFile, input |-> NoFile]
  /\ pc = [i \in Inv |-> "idle"]
  /\ event = [i \in Inv |-> << >>]
  /\ code = [i \in Inv |-> ""]
  /\ input_data = [i \in Inv |-> ""]
  /\ time_limit_ms = [i \in Inv |-> 0]
  /\ execution_timeout = [i \in Inv |-> 0]
  /\ start_time = [i \in Inv |-> 0]
  /\ endtime = [i \in Inv |-> 0]
  /\ process = [i \in Inv |-> NoProcess]
  /\ desc = [i \in Inv |-> "none"]
  /\ result = [i \in Inv |-> NoResult]
  /\ trace = [i \in Inv |-> NoTrace]

-----------------------------------------------------------------------------
(* Leaving the handler *)

\* The history of invocation i once it has taken the return statement b
Took(i, b) == [trace[i] EXCEPT !.branch = b]

\* `return r`, the history becoming h
Return(i, r, h) ==
  /\ pc' = [pc EXCEPT ![i] = "returned"]
  /\ result' = [result EXCEPT ![i] = r]
  /\ trace' = [trace EXCEPT ![i] = [h EXCEPT !.decided = now, !.returns = @ + 1]]

\* An exception e raised inside the outer try: lines 108-118
Except(i, e) == Return(i, ExceptionResult(e), [Took(i, "fault") EXCEPT !.raised = e])

\* The same for an OSError of open, write, close or Popen
OSError(i, e) ==
  Return(i, ExceptionResult(e), [Took(i, "fault") EXCEPT !.raised = e, !.io_error = TRUE])

\* Another invocation is between its call and its return
OthersInFlight(i) == \E j \in Inv \ {i} : pc[j] \notin {"idle", "returned"}

-----------------------------------------------------------------------------
(* lambda_handler, step by step *)

\* A plausible slip: the `if not code` check is missing
InvokeUnchecked(i, ev) ==
  /\ pc[i] = "idle"
  /\ event' = [event EXCEPT ![i] = ev]
  /\ code' = [code EXCEPT ![i] = Get(ev, "code", "")]
  /\ input_data' = [input_data EXCEPT ![i] = Get(ev, "input", "")]
  /\ time_limit_ms' = [time_limit_ms EXCEPT ![i] = Get(ev, "time_limit_ms", DefaultTimeLimitMs)]
  /\ execution_timeout' = [execution_timeout EXCEPT ![i] =
       Min(Get(ev, "time_limit_ms", DefaultTimeLimitMs) \div MsPerSecond, MaxSeconds)]
  /\ pc' = [pc EXCEPT ![i] = "open_code"]
  /\ UNCHANGED <<now, fs, start_time, endtime, process, desc, result, trace>>

\* lines 29-42: read the event; empty code returns at once
Invoke(i, ev) ==
  /\ pc[i] = "idle"
  /\ event' = [event EXCEPT ![i] = ev]
  /\ code' = [code EXCEPT ![i] = Get(ev, "code", "")]
  /\ input_data' = [input_data EXCEPT ![i] = Get(ev, "input", "")]
  /\ time_limit_ms' = [time_limit_ms EXCEPT ![i] = Get(ev, "time_limit_ms", DefaultTimeLimitMs)]
  /\ IF Get(ev, "code", "") = ""
       THEN /\ Return(i, NoCodeResult,
                        [Took(i, "empty") EXCEPT !.overlapped = OthersInFlight(i)])
            /\ UNCHANGED execution_timeout
       ELSE /\ execution_timeout' = [execution_timeout EXCEPT ![i] =
                 ExecutionTimeout(Get(ev, "time_limit_ms", DefaultTimeLimitMs))]
            /\ pc' = [pc EXCEPT ![i] = "open_code"]
            /\ trace' = [trace EXCEPT ![i].overlapped = OthersInFlight(i)]
            /\ UNCHANGED result
  /\ UNCHANGED <<now, fs, start_time, endtime, process, desc>>

\* A plausible slip: the file is opened in mode "x", which refuses a path that
\* an earlier invocation left behind
OpenCodeExclusive(i) ==
  /\ pc[i] = "open_code"
  /\ \/ /\ fs.code = NoFile
        /\ fs' = [fs EXCEPT !.code = ""]
        /\ pc' = [pc EXCEPT ![i] = "write_code"]
        /\ UNCHANGED <<result, trace>>
     \/ /\ fs.code # NoFile
        /\ Except(i, "FileExistsError: /tmp/code.py")
        /\ UNCHANGED fs
     \/ /\ OSError(i, "OSError: /tmp/code.py")
        /\ UNCHANGED fs
  /\ UNCHANGED <<now, event, locals, start_time, endtime, process, desc>>

\* line 45: open("/tmp/code.py", "w") creates or truncates the file, or raises
OpenCode(i) ==
  /\ pc[i] = "open_code"
  /\ \/ /\ fs' = [fs EXCEPT !.code = ""]
        /\ pc' = [pc EXCEPT ![i] = "write_code"]
        /\ UNCHANGED <<result, trace>>
     \/ /\ OSError(i, "OSError: /tmp/code.py")
        /\ UNCHANGED fs
  /\ UNCHANGED <<now, event, locals, start_time, endtime, process, desc>>

\* line 46 and the close of the with block: the text reaches the file, or raises
WriteCode(i) ==
  /\ pc[i] = "write_code"
  /\ \/ /\ fs' = [fs EXCEPT !.code = code[i]]
        /\ pc' = [pc EXCEPT ![i] = "open_input"]
        /\ UNCHANGED <<result, trace>>
     \/ /\ OSError(i, "OSError: /tmp/code.py")
        /\ UNCHANGED fs
  /\ UNCHANGED <<now, event, locals, start_time, endtime, process, desc>>

\* A plausible slip: the input file is written only when there is none yet
OpenInputIfMissing(i) ==
  /\ pc[i] = "open_input"
  /\ \/ /\ fs.input = NoFile
        /\ fs' = [fs EXCEPT !.input = ""]
        /\ pc' = [pc EXCEPT ![i] = "write_input"]
        /\ UNCHANGED <<result, trace>>
     \/ /\ fs.input # NoFile
        /\ pc' = [pc EXCEPT ![i] = "popen"]
        /\ UNCHANGED <<fs, result, trace>>
     \/ /\ OSError(i, "OSError: /tmp/input.txt")
        /\ UNCHANGED fs
  /\ UNCHANGED <<now, event, locals, start_time, endtime, process, desc>>

\* line 49
OpenInput(i) ==
  /\ pc[i] = "open_input"
  /\ \/ /\ fs' = [fs EXCEPT !.input = ""]
        /\ pc' = [pc EXCEPT ![i] = "write_input"]
        /\ UNCHANGED <<result, trace>>
     \/ /\ OSError(i, "OSError: /tmp/input.txt")
        /\ UNCHANGED fs
  /\ UNCHANGED <<now, event, locals, start_time, endtime, process, desc>>

\* line 50 and the close of the with block
WriteInput(i) ==
  /\ pc[i] = "write_input"
  /\ \/ /\ fs' = [fs EXCEPT !.input = input_data[i]]
        /\ pc' = [pc EXCEPT ![i] = "popen"]
        /\ UNCHANGED <<result, trace>>
     \/ /\ OSError(i, "OSError: /tmp/input.txt")
        /\ UNCHANGED fs
  /\ UNCHANGED <<now, event, locals, start_time, endtime, process, desc>>

\* lines 53-67: the timer starts; Popen starts python3 with stdin on
\* /tmp/input.txt, or raises (no interpreter, no process slot);
\* communicate(timeout) then fixes its deadline
Popen(i) ==
  /\ pc[i] = "popen"
  /\ start_time' = [start_time EXCEPT ![i] = now]
  /\ \/ /\ process' = [process EXCEPT ![i] = [NoProcess EXCEPT !.state = "spawned"]]
        /\ endtime' = [endtime EXCEPT ![i] = now + execution_timeout[i]]
        /\ pc' = [pc EXCEPT ![i] = "communicate"]
        /\ trace' = [trace EXCEPT ![i].launches = @ + 1]
        /\ UNCHANGED result
     \/ /\ OSError(i, "OSError: python3")
        /\ UNCHANGED <<process, endtime>>
  /\ UNCHANGED <<now, fs, event, locals, desc>>

\* A plausible slip: the sampling of lines 73-76 has no try of its own
CommunicateReturnsUnguarded(i) ==
  /\ pc[i] = "communicate"
  /\ now < endtime[i]
  /\ process[i].state = "exited"
  /\ PipesClosed(i)
  /\ IF Decodable(process[i].out) /\ Decodable(process[i].err)
       THEN \E sample \in RssSamples :
              IF sample = "<OSError>"
                THEN Return(i, ExceptionResult("OSError: ps"),
                            [Took(i, "fault") EXCEPT !.raised = "OSError: ps",
                                                     !.sample = sample])
                ELSE Return(i, CompletedResult(process[i].returncode,
                                               Decode(process[i].out),
                                               Decode(process[i].err),
                                               ExecutionTime(start_time[i], now),
                                               MemoryUsed(sample)),
                            [Took(i, "completed") EXCEPT !.sample = sample])
       ELSE Except(i, "UnicodeDecodeError")
  /\ UNCHANGED <<now, fs, event, locals, start_time, endtime, process, desc>>

\* line 67 returning, lines 70-91
CommunicateReturns(i) ==
  /\ pc[i] = "communicate"
  /\ now < endtime[i]
  /\ process[i].state = "exited"
  /\ PipesClosed(i)
  /\ IF Decodable(process[i].out) /\ Decodable(process[i].err)
       THEN \E sample \in RssSamples :
              Return(i, CompletedResult(process[i].returncode,
                                        Decode(process[i].out), Decode(process[i].err),
                                        ExecutionTime(start_time[i], now),
                                        MemoryUsed(sample)),
                     [Took(i, "completed") EXCEPT !.sample = sample])
       ELSE Except(i, "UnicodeDecodeError")
  /\ UNCHANGED <<now, fs, event, locals, start_time, endtime, process, desc>>

\* line 67 raising subprocess.TimeoutExpired: control moves to line 93
CommunicateTimesOut(i) ==
  /\ pc[i] = "communicate"
  /\ now >= endtime[i]
  /\ pc' = [pc EXCEPT ![i] = "kill"]
  /\ trace' = [trace EXCEPT ![i].decided = now, ![i].expired = TRUE]
  /\ UNCHANGED <<now, fs, event, locals, start_time, endtime, process, desc, result>>

\* A plausible slip: a child found already ended is given its natural result
KillUnlessExited(i) ==
  /\ pc[i] = "kill"
  /\ IF process[i].state = "exited"
       THEN /\ Return(i, CompletedResult(process[i].returncode, process[i].out,
                                         process[i].err,
                                         ExecutionTime(start_time[i], now), 0),
                      Took(i, "completed"))
            /\ UNCHANGED process
       ELSE /\ process' = [process EXCEPT ![i].state = "killed", ![i].returncode = -9]
            /\ pc' = [pc EXCEPT ![i] = "drain"]
            /\ trace' = [trace EXCEPT ![i].kills = @ + 1]
            /\ UNCHANGED result
  /\ UNCHANGED <<now, fs, event, locals, start_time, endtime, desc>>

\* line 96: Popen.kill() sends SIGKILL to the child, and to nothing else,
\* unless the child has already ended
Kill(i) ==
  /\ pc[i] = "kill"
  /\ process' = [process EXCEPT ![i] =
         IF @.state \in {"spawned", "running"}
           THEN [@ EXCEPT !.state = "killed", !.returncode = -9]
           ELSE @]
  /\ pc' = [pc EXCEPT ![i] = "drain"]
  /\ trace' = [trace EXCEPT ![i].kills = @ + 1]
  /\ UNCHANGED <<now, fs, event, locals, start_time, endtime, desc, result>>

\* A plausible slip: a run that timed out is given a second chance
DrainRetries(i) ==
  /\ pc[i] = "drain"
  /\ PipesClosed(i)
  /\ IF trace[i].launches < 2
       THEN /\ pc' = [pc EXCEPT ![i] = "popen"]
            /\ UNCHANGED <<result, trace>>
       ELSE Return(i, TimeoutResult(time_limit_ms[i]), Took(i, "timeout"))
  /\ UNCHANGED <<now, fs, event, locals, start_time, endtime, process, desc>>

\* A plausible slip: the drain stands outside the inner try, so what it raises
\* reaches line 108
DrainUnguarded(i) ==
  /\ pc[i] = "drain"
  /\ PipesClosed(i)
  /\ IF Decodable(process[i].out) /\ Decodable(process[i].err)
       THEN Return(i, TimeoutResult(time_limit_ms[i]),
                   [Took(i, "timeout") EXCEPT !.decided = trace[i].decided])
       ELSE Except(i, "UnicodeDecodeError")
  /\ UNCHANGED <<now, fs, event, locals, start_time, endtime, process, desc>>

\* line 97: communicate() without a timeout reads both pipes to EOF and reaps
\* the child; what it returns is dropped and what it raises (undecodable
\* output) is swallowed by `except: pass`; lines 101-106 return
Drain(i) ==
  /\ pc[i] = "drain"
  /\ PipesClosed(i)
  /\ pc' = [pc EXCEPT ![i] = "returned"]
  /\ result' = [result EXCEPT ![i] = TimeoutResult(time_limit_ms[i])]
  /\ trace' = [trace EXCEPT ![i].branch = "timeout", ![i].returns = @ + 1,
                            ![i].swallowed = ~(Decodable(process[i].out)
                                               /\ Decodable(process[i].err))]
  /\ UNCHANGED <<now, fs, event, locals, start_time, endtime, process, desc>>

-----------------------------------------------------------------------------
(* The child, its descendant and the clock *)

\* python3 opens /tmp/code.py, reads its stdin and runs the program
ChildRuns(i) ==
  /\ process[i].state = "spawned"
  /\ LET b == Behaviour(fs.code, fs.input) IN
       /\ process' = [process EXCEPT ![i] =
             [state |-> "running", ran |-> TRUE, prog |-> fs.code, stdin |-> fs.input,
              out |-> b.out, err |-> b.err, returncode |-> 0]]
       /\ desc' = [desc EXCEPT ![i] = b.forks]
  /\ UNCHANGED <<now, fs, pc, event, locals, start_time, endtime, result, trace>>

\* the program ends by itself
ChildExits(i) ==
  /\ process[i].state = "running"
  /\ LET b == Behaviour(process[i].prog, process[i].stdin) IN
       /\ b.halts
       /\ process' = [process EXCEPT ![i].state = "exited", ![i].returncode = b.rc]
  /\ trace' = [trace EXCEPT ![i].late_exit = (pc[i] = "kill")]
  /\ UNCHANGED <<now, fs, pc, event, locals, start_time, endtime, desc, result>>

\* the forked process ends by itself, if it ever does
DescExits(i) ==
  /\ desc[i] \in {"alive", "detached"}
  /\ desc' = [desc EXCEPT ![i] = "exited"]
  /\ UNCHANGED <<now, fs, pc, event, locals, start_time, endtime, process, result, trace>>

\* A second passes while some invocation waits in communicate(timeout); time
\* that passes elsewhere is measured by nobody.  A communicate whose deadline
\* has come raises before the clock moves on.
Tick ==
  /\ now < MaxClock
  /\ \E i \in Inv : pc[i] = "communicate"
  /\ \A i \in Inv : pc[i] = "communicate" => now < endtime[i]
  /\ now' = now + 1
  /\ UNCHANGED <<fs, pc, event, locals, start_time, endtime, process, desc, result, trace>>

\* One step of invocation i, called with an event of E, or of its processes
Step(i, E) ==
  \/ \E ev \in E : Invoke(i, ev)
  \/ OpenCode(i)
  \/ WriteCode(i)
  \/ OpenInput(i)
  \/ WriteInput(i)
  \/ Popen(i)
  \/ CommunicateReturns(i)
  \/ CommunicateTimesOut(i)
  \/ Kill(i)
  \/ Drain(i)
  \/ ChildRuns(i)
  \/ ChildExits(i)
  \/ DescExits(i)

\* One invocation in the container, as the platform schedules it
Next == Tick \/ \E i \in {1} : Step(i, Events)

Spec == Init /\ [][Next]_vars

\* The interpreter runs the handler's statements one after the other, the
\* clock advances, and the kernel runs the child; a program that halts does
\* halt.  Nothing makes a forked process end.
Handler(i) ==
  \/ OpenCode(i) \/ WriteCode(i) \/ OpenInput(i) \/ WriteInput(i) \/ Popen(i)
  \/ CommunicateReturns(i) \/ CommunicateTimesOut(i) \/ Kill(i) \/ Drain(i)

FairSpec ==
  /\ Spec
  /\ WF_vars(Tick)
  /\ WF_vars(Handler(1))
  /\ WF_vars(ChildRuns(1) \/ ChildExits(1))

\* Two invocations of the handler in flight in one container
NextPair == Tick \/ \E i \in Inv : Step(i, PairEvents)

SpecPair == Init /\ [][NextPair]_vars

-----------------------------------------------------------------------------
(* Properties *)

ChildStarted(i) == process[i].ran

Returned(i) == pc[i] = "returned"

\* C1: when two invocations run concurrently, each child executes the source
\* and reads the input of its own request, and each output returned after a
\* natural completion is what the request's own program prints on its own input.
C1_OwnWorkspace ==
  \A i \in Inv :
    /\ ChildStarted(i) =>
         /\ process[i].prog = code[i]
         /\ process[i].stdin = input_data[i]
    /\ Returned(i) /\ trace[i].branch = "completed" =>
         result[i].output \in {Decode(Behaviour(code[i], input_data[i]).out),
                               Decode(Behaviour(code[i], input_data[i]).err)}

\* The outcome of invocation i has the four fields and one of the four statuses.
WellFormed(i) ==
  /\ DOMAIN result[i] = {"status", "output", "execution_time_ms", "memory_used_kb"}
  /\ result[i].status \in Statuses
  /\ result[i].execution_time_ms \in Nat
  /\ result[i].memory_used_kb \in Nat

AtMostOneOutcome(i) ==
  /\ trace[i].returns <= 1
  /\ Returned(i) => trace[i].returns = 1 /\ WellFormed(i)
  /\ ~Returned(i) => result[i] = NoResult

\* C2: every invocation returns exactly one outcome, with the four fields and
\* one of the four statuses: an invocation that was started eventually
\* returns, never returns twice, and whatever it returned is well formed.
C2_ExactlyOneOutcome ==
  /\ [](\A i \in Inv : AtMostOneOutcome(i))
  /\ \A i \in Inv : (pc[i] # "idle") ~> Returned(i)

\* C3: when an invocation has returned time_limit_exceeded, neither the child
\* it launched nor a process started by that child is still alive.
C3_TreeTerminated ==
  \A i \in Inv :
    Returned(i) /\ result[i].status = "time_limit_exceeded" =>
      /\ process[i].state \in {"exited", "killed"}
      /\ desc[i] \notin {"alive", "detached"}

\* C4: once communicate has raised TimeoutExpired, kill() is called and the
\* outcome is time_limit_exceeded with the timeout message, also when the
\* child ended by itself before kill(): its exit code and output are dropped.
C4_ExpiryDecides ==
  \A i \in Inv :
    trace[i].expired =>
      /\ pc[i] \in {"kill", "drain", "returned"}
      /\ pc[i] \in {"drain", "returned"} => trace[i].kills = 1
      /\ Returned(i) =>
           /\ result[i].status = "time_limit_exceeded"
           /\ result[i].output \notin {Decode(process[i].out), Decode(process[i].err)}
           /\ result[i].output =
                "Execution timed out after " \o FormatSeconds(time_limit_ms[i]) \o " seconds"

\* C4, the case: the child exited with code 0 between the expiry and kill()
C4_Witness ==
  \E i \in Inv :
    /\ Returned(i) /\ trace[i].expired /\ trace[i].late_exit
    /\ process[i].state = "exited" /\ process[i].returncode = 0

\* The child of invocation i ended by itself and no timeout was raised.
CompletedNaturally(i) ==
  Returned(i) /\ process[i].state = "exited" /\ ~trace[i].expired

ByExitCode(i) ==
  IF process[i].returncode = 0
    THEN /\ result[i].status = "success"
         /\ result[i].output = Decode(process[i].out)
    ELSE /\ result[i].status = "runtime_error"
         /\ result[i].output = Decode(process[i].err)

C6_EmptyCode ==
  \A i \in Inv :
    pc[i] # "idle" /\ Get(event[i], "code", "") = "" =>
      /\ Returned(i)
      /\ result[i].status = "compilation_error"
      /\ result[i].execution_time_ms = 0
      /\ result[i].memory_used_kb = 0
      /\ process[i] = NoProcess /\ trace[i].launches = 0
      /\ (\A j \in Inv \ {i} : pc[j] = "idle") => fs = [code |-> NoFile, input |-> NoFile]

\* C6, the case: empty code sent with an input and a time limit
C6_Witness ==
  \E i \in Inv :
    /\ Returned(i)
    /\ DOMAIN event[i] = {"code", "input", "time_limit_ms"}
    /\ event[i].code = "" /\ event[i].input # "" /\ event[i].time_limit_ms > 0

\* C7: the execution_time_ms of every outcome of an invocation that launched
\* its child is the wall-clock time from the launch to the moment communicate
\* returned or raised.
C7_ElapsedWallClock ==
  \A i \in Inv :
    Returned(i) /\ trace[i].launches = 1 =>
      result[i].execution_time_ms = (trace[i].decided - start_time[i]) * MsPerSecond

\* C8: once an invocation has returned, the source file and the input file
\* are gone.
C8_WorkspaceRemoved ==
  \A i \in Inv : Returned(i) => fs.code = NoFile /\ fs.input = NoFile

\* The time limit of the request, 10000 when omitted, and the deadline claimed
RequestedLimit(i) == Get(event[i], "time_limit_ms", 10000)

ClaimedDeadlineMs(i) == Min(RequestedLimit(i), 8000)

\* C9: the supervisor never waits in communicate(timeout) for longer than
\* min(time_limit_ms, 8000) ms, and TimeoutExpired is raised exactly then.
C9_ClampedDeadline ==
  \A i \in Inv :
    /\ pc[i] = "communicate" =>
         (now - start_time[i]) * MsPerSecond <= ClaimedDeadlineMs(i)
    /\ trace[i].expired =>
         (trace[i].decided - start_time[i]) * MsPerSecond = ClaimedDeadlineMs(i)

\* C9, the cases: a limit above the ceiling and an omitted limit expire at 8 s
C9_Witness ==
  \E i \in Inv :
    /\ trace[i].expired
    /\ RequestedLimit(i) > 8000
    /\ trace[i].decided - start_time[i] = 8

\* C10: once the deadline has fired, the invocation eventually returns
\* time_limit_exceeded, whatever other process still holds the pipes.
C10_DrainReturns ==
  \A i \in Inv :
    trace[i].expired ~> (Returned(i) /\ result[i].status = "time_limit_exceeded")

\* The outcome that lines 108-118 give for a failure described by e
ReportsFailure(i, e) ==
  /\ Returned(i)
  /\ result[i].status = "compilation_error"
  /\ result[i].output = e

RanUndisturbed(i) ==
  Returned(i) /\ ~trace[i].overlapped /\ ~trace[i].io_error

\* C12: two runs of the identical request, one after the other, in which the
\* environment behaves alike (no file or process operation is refused, and
\* the program's processes end on the same side of the deadline in both),
\* return the same status and the same output; the timing and memory fields
\* are left free.
C12_Idempotent ==
  \A i \in Inv : \A j \in Inv :
    /\ RanUndisturbed(i) /\ RanUndisturbed(j)
    /\ event[i] = event[j]
    /\ trace[i].expired = trace[j].expired
    => /\ result[i].status = result[j].status
       /\ result[i].output = result[j].output

\* The same request ran twice in turn and both runs returned its own output
C12_Witness ==
  \E i \in Inv : \E j \in Inv \ {i} :
    /\ RanUndisturbed(i) /\ RanUndisturbed(j)
    /\ event[i] = event[j]
    /\ ~trace[i].expired /\ ~trace[j].expired
    /\ result[i].status = "success" /\ result[j].status = "success"
    /\ result[i].output = Decode(event[i].input)

\* t occurs in s
Contains(s, t) ==
  \E k \in 1..(Len(s) - Len(t) + 1) : SubSeq(s, k, k + Len(t) - 1) = t

TimedOutOutcome(i) == Returned(i) /\ result[i].status = "time_limit_exceeded"

\* The seconds that communicate() of line 67 was given
EnforcedSeconds(i) == endtime[i] - start_time[i]

\* C13: the output of a time_limit_exceeded outcome is the diagnostic message
\* with the number of seconds that was enforced, and nothing the child wrote
\* to stdout or stderr, before or after the deadline, occurs in it.
C13_DiagnosticOnly ==
  \A i \in Inv :
    TimedOutOutcome(i) =>
      /\ \E f \in {"", ".0"} :
           result[i].output =
             "Execution timed out after " \o ToString(EnforcedSeconds(i)) \o f \o " seconds"
      /\ \A t \in {process[i].out, process[i].err} \ {""} :
           ~Contains(result[i].output, t)

\* The child had written to stdout when it was killed, under a clamped limit
C13_Witness ==
  \E i \in Inv :
    /\ TimedOutOutcome(i) /\ process[i].state = "killed"
    /\ process[i].out # "" /\ time_limit_ms[i] > MaxSeconds * MsPerSecond

\* The state of the spec's machine at program position p with history h:
\* Pending while the two files are written, Launching at Popen, Running while
\* communicate() of line 67 waits, TimedOut from the TimeoutExpired of line 93
\* onwards, Completed at the return of line 86, LaunchFailed at the return of
\* line 113; Rejected is the empty-code return of line 34, which the
\* supervisor never sees
PhaseOf(p, h) ==
  CASE p = "idle" -> "Idle"
    [] p \in {"open_code", "write_code", "open_input", "write_input"} -> "Pending"
    [] p = "popen" -> "Launching"
    [] p = "communicate" -> "Running"
    [] p \in {"kill", "drain"} -> "TimedOut"
    [] p = "returned" /\ h.branch = "completed" -> "Completed"
    [] p = "returned" /\ h.branch = "timeout" -> "TimedOut"
    [] p = "returned" /\ h.branch = "fault" -> "LaunchFailed"
    [] p = "returned" /\ h.branch = "empty" -> "Rejected"

Phase(i) == PhaseOf(pc[i], trace[i])

TerminalPhases == {"Completed", "TimedOut", "LaunchFailed"}

\* The arrows of the machine; a failure before Running goes to LaunchFailed
PhaseArrows ==
  {<<"Idle", "Pending">>, <<"Idle", "Rejected">>,
   <<"Pending", "Launching">>, <<"Launching", "Running">>,
   <<"Pending", "LaunchFailed">>, <<"Launching", "LaunchFailed">>}
  \cup {<<"Running", t>> : t \in TerminalPhases}

FollowsMachine(i) ==
  PhaseOf(pc'[i], trace'[i]) # Phase(i) =>
    <<Phase(i), PhaseOf(pc'[i], trace'[i])>> \in PhaseArrows

StatusByTerminal(i) ==
  Returned(i) =>
    CASE Phase(i) = "Completed" ->
           result[i].status = IF process[i].returncode = 0 THEN "success"
                              ELSE "runtime_error"
      [] Phase(i) = "TimedOut" -> result[i].status = "time_limit_exceeded"
      [] Phase(i) \in {"LaunchFailed", "Rejected"} ->
           result[i].status = "compilation_error"

\* C14: every step of an invocation follows an arrow of Pending -> Launching
\* -> Running -> {Completed, TimedOut, LaunchFailed}, so that a terminal
\* state, once reached, is never left and Running is never entered again;
\* an invocation with code reaches a terminal state; and the terminal state
\* fixes the returned status.
C14_StateMachine ==
  /\ [][\A i \in Inv : FollowsMachine(i)]_vars
  /\ [](\A i \in Inv : StatusByTerminal(i))
  /\ \A i \in Inv :
       (Phase(i) \in {"Pending", "Launching", "Running"}) ~> (Phase(i) \in TerminalPhases)

\* The child died by a signal before the deadline: Completed, runtime_error
C14_Witness ==
  \E i \in Inv :
    /\ Returned(i) /\ Phase(i) = "Completed"
    /\ process[i].returncode < 0 /\ result[i].status = "runtime_error"

\* C15: after the deadline-exceeded decision kill() is called once whatever
\* the child's state, and whether the drain raises or the child had already
\* ended, the invocation returns time_limit_exceeded by the return of line
\* 101, no exception having reached the handler of line 108.
C15_TerminationCannotChangeOutcome ==
  \A i \in Inv :
    trace[i].expired =>
      /\ trace[i].raised = ""
      /\ trace[i].kills = (IF pc[i] = "kill" THEN 0 ELSE 1)
      /\ Returned(i) =>
           /\ trace[i].branch = "timeout"
           /\ result[i] = TimeoutResult(time_limit_ms[i])

\* kill() found the child already ended, and the drain raised on its bytes
C15_Witness ==
  \E i \in Inv :
    /\ Returned(i) /\ trace[i].expired /\ trace[i].kills = 1
    /\ trace[i].late_exit /\ process[i].state = "exited"
    /\ trace[i].swallowed

\* C16: within one invocation Popen is reached at most once and its child
\* runs the code at most once, whatever the outcome; an invocation that has
\* a child has launched exactly one.
C16_LaunchedAtMostOnce ==
  \A i \in Inv :
    /\ trace[i].launches <= 1
    /\ pc[i] \in {"kill", "drain"} => trace[i].launches = 1
    /\ ChildStarted(i) => trace[i].launches = 1
    /\ Returned(i) /\ result[i].status \in {"success", "runtime_error", "time_limit_exceeded"}
         => trace[i].launches = 1

\* A run that failed or timed out was reported after its single launch
C16_Witness ==
  \E i \in Inv :
    /\ Returned(i) /\ trace[i].launches = 1 /\ ChildStarted(i)
    /\ result[i].status \in {"runtime_error", "time_limit_exceeded"}

\* The sampling of lines 73-76 took place and gave no figure: os.popen or
\* int() raised, or ps printed nothing
SamplingFailed(i) == trace[i].sample \in RssSamples \ {"51200"}

\* C17: when the memory sampling after a natural completion fails,
\* memory_used_kb is 0 and status and output are those the exit code gives,
\* as with a sampling that succeeds; the outcome is not compilation_error
\* and nothing reaches the handler of line 108.
C17_SamplingFailureHarmless ==
  \A i \in Inv :
    SamplingFailed(i) =>
      /\ Returned(i) /\ trace[i].raised = ""
      /\ result[i].memory_used_kb = 0
      /\ ByExitCode(i)
      /\ result[i].execution_time_ms = ExecutionTime(start_time[i], trace[i].decided)

\* The sampling raised after a child that failed
C17_Witness ==
  \E i \in Inv :
    /\ Returned(i) /\ trace[i].sample = "<OSError>"
    /\ process[i].returncode # 0 /\ result[i].status = "runtime_error"

\* No invocation was called while another was in flight
NoOverlap == \A j \in Inv : ~trace[j].overlapped

WriteFailed(i) ==
  trace[i].raised \in {"OSError: /tmp/code.py", "OSError: /tmp/input.txt"}

\* C18: when invocations do not overlap, an invocation with code reaches
\* Popen only with both files holding exactly its own code and input,
\* whatever earlier invocations left, its child runs that code on that
\* input, and an invocation whose write failed has launched no child.
C18_LeftoversOverwritten ==
  NoOverlap =>
    \A i \in Inv :
      /\ pc[i] = "popen" => fs.code = code[i] /\ fs.input = input_data[i]
      /\ trace[i].launches = 1 /\ ~ChildStarted(i) /\ process[i].state = "spawned" =>
           fs.code = code[i] /\ fs.input = input_data[i]
      /\ ChildStarted(i) =>
           process[i].prog = code[i] /\ process[i].stdin = input_data[i]
      /\ WriteFailed(i) => trace[i].launches = 0 /\ process[i] = NoProcess

\* A later invocation ran its own code on its own input over the files of
\* an earlier one that carried other code and other input
C18_Witness ==
  \E i \in Inv : \E j \in Inv \ {i} :
    /\ NoOverlap /\ Returned(i) /\ Returned(j)
    /\ ChildStarted(i) /\ ChildStarted(j)
    /\ code[i] # code[j] /\ input_data[i] # input_data[j]
    /\ fs.code = code[i] /\ fs.input = input_data[i]
    /\ process[i].prog = code[i] /\ process[i].stdin = input_data[i]

\* The deadline given to communicate() of line 67, in milliseconds
EnforcedMs(i) == EnforcedSeconds(i) * MsPerSecond

====
